---- MODULE Spec2Model ----
(***************************************************************************)
(* EtcdClientSelector (clientselector/etcd_selector.go): the registry      *)
(* synchroniser (pullServers, createWeighted, removeInactiveServers,       *)
(* watch), the selection dispatch (Select), and the connection cache       *)
(* (getCachedClient, HandleFailedClient).                                  *)
(*                                                                         *)
(* One watch goroutine and NumClients caller goroutines run against the    *)
(* selector's fields.  The fields Servers, WeightedServers, len and        *)
(* currentServer are read and written without any lock, so every           *)
(* statement that touches them is a step of its own and the steps of the   *)
(* goroutines interleave.  A panic in any goroutine ends the process.      *)
(***************************************************************************)
EXTENDS Integers, Sequences, FiniteSets, TLC

\* ---------------------------------------------------------------- bounds
NumServers == 2     \* instance keys that may be registered under BasePath
NumClients == 1     \* goroutines calling Select / HandleFailedClient
MaxChanges == 1     \* registry changes after construction
MaxConns   == 2     \* connections successfully dialled
NumDialers == 2     \* goroutines calling Select at once while the registry is quiet

Addrs   == 1..NumServers          \* server keys "network@host:port", in sort order
Clients == 1..NumClients
Handles == 1..MaxConns            \* non-nil *core.Client values
Dialers == 1..NumDialers

Nil    == 0                       \* nil *core.Client
NilW   == [nil |-> TRUE]          \* nil *Weighted
Absent == [absent |-> TRUE]       \* no node under that key
Group  == ""                      \* s.Group as left by NewEtcdClientSelector

\* ------------------------------------------------------- registry values
\* A node value is a query string.  It is kept as what the parsers make of
\* it: ok is whether url.ParseQuery accepts it, weight/state/group are the
\* raw strings of those keys, geo is the distance of the declared
\* coordinates from the caller (NoGeo: none declared).
NoGeo == 99

VActive == [ok |-> TRUE,  weight |-> "2", state |-> "active",   group |-> "",   geo |-> 1]
VDown   == [ok |-> TRUE,  weight |-> "",  state |-> "inactive", group |-> "",   geo |-> 1]
VOther  == [ok |-> TRUE,  weight |-> "x", state |-> "",         group |-> "g1", geo |-> 2]
VBroken == [ok |-> FALSE, weight |-> "",  state |-> "inactive", group |-> "",   geo |-> NoGeo]

NodeValues == {VActive, VDown, VOther, VBroken}

Actions == {"create", "set", "update", "delete", "expire"}

Modes == {"RandomSelect", "RoundRobin", "ConsistentHash", "WeightedRoundRobin",
          "WeightedICMP", "Closest", "Unknown"}

\* ------------------------------------------------------------- helpers
Range(f) == {f[x] : x \in DOMAIN f}

RemoveAt(s, k) == [i \in 1..(Len(s) - 1) |-> IF i < k THEN s[i] ELSE s[i + 1]]

MapDelete(m, k) == [x \in (DOMAIN m) \ {k} |-> m[x]]

MapPut(m, k, v) == [x \in (DOMAIN m) \cup {k} |-> IF x = k THEN v ELSE m[x]]

\* m[k] of a Go map: the zero value when there is no entry
MapGet(m, k) == IF k \in DOMAIN m THEN m[k] ELSE Nil

\* url.ParseQuery(n.Value)
ParseQuery(v) == [err |-> ~v.ok, weight |-> v.weight, state |-> v.state, group |-> v.group]

\* strconv.Atoi
Atoi(w) ==
    IF w \in {"0", "1", "2", "3"}
    THEN [err |-> FALSE, n |-> CASE w = "0" -> 0 [] w = "1" -> 1 [] w = "2" -> 2 [] w = "3" -> 3]
    ELSE [err |-> TRUE, n |-> 0]

\* KeysAPI.Get(BasePath, {Recursive, Sort}): the children in key order
RECURSIVE ListFrom(_, _)
ListFrom(r, k) ==
    IF k > NumServers THEN <<>>
    ELSE IF r[k] = Absent THEN ListFrom(r, k + 1)
    ELSE <<[key |-> k, value |-> r[k]]>> \o ListFrom(r, k + 1)

Listing(r) == ListFrom(r, 1)

GetErr == [err |-> TRUE, node |-> FALSE, nodes |-> <<>>]
GetOkResp(r) == [err |-> FALSE, node |-> TRUE, nodes |-> Listing(r)]

\* the error of the Get is not looked at
GetNotChecked(rsp) == TRUE

\* line 139: err == nil && resp.Node != nil
GetSucceeded(rsp) == ~rsp.err /\ rsp.node

\* lines 141-145: the keys of the listed nodes
ServersOf(nodes) == [i \in 1..Len(nodes) |-> nodes[i].key]

\* line 189: (state != "" && state != "active") || (s.Group != group)
IsInactive(q) == (q.state # "" /\ q.state # "active") \/ (Group # q.group)

\* lines 183-198: the record createWeighted makes for one node
WeightOf(v) ==
    LET q == ParseQuery(v)
    IN  IF ~q.err /\ q.weight # "" /\ ~Atoi(q.weight).err THEN Atoi(q.weight).n ELSE 1

NewWeighted(n) ==
    [Server |-> n.key, Weight |-> WeightOf(n.value),
     EffectiveWeight |-> WeightOf(n.value), CurrentWeight |-> 0]

\* lines 185-191: whether node n is appended to inactiveServers
MarkedInactive(n) == ~ParseQuery(n.value).err /\ IsInactive(ParseQuery(n.value))


\* lines 179-191: the indices createWeighted collects, in ascending order
InactiveOf(nodes) ==
    SelectSeq([i \in 1..Len(nodes) |-> i], LAMBDA i : MarkedInactive(nodes[i]))

\* lines 206-211: the slice with the collected indices cut out, last index first
RECURSIVE RemoveIdx(_, _)
RemoveIdx(s, idxs) ==
    IF idxs = <<>> THEN s
    ELSE RemoveIdx(RemoveAt(s, idxs[Len(idxs)]), SubSeq(idxs, 1, Len(idxs) - 1))

\* Ping(host): the round-trip times a probe may report (milliseconds)
Rtts == {10, 1000}

\* CalculateWeight(rtt): lower latency, higher weight; 0 for an unreachable host
CalculateWeight(rtt) == IF rtt <= 10 THEN 2 ELSE 0

\* lines 151-161: the weights overwritten from the probes when the mode is WeightedICMP
WithIcmp(ws, rt) ==
    [i \in 1..Len(ws) |->
        IF ws[i] = NilW THEN NilW
        ELSE [ws[i] EXCEPT !.Weight = CalculateWeight(rt[i]),
                           !.EffectiveWeight = CalculateWeight(rt[i])]]

\* ------------------------------------------------------------------ state
VARIABLES
    reg,              \* registry: key -> node value or Absent
    events,           \* change notifications the watcher has not yet received
    changes,          \* registry changes made so far
    Servers,          \* s.Servers
    WeightedServers,  \* s.WeightedServers (NilW: a slot make() left unset)
    metadata,         \* s.metadata
    len,              \* s.len
    currentServer,    \* s.currentServer
    clientAndServer,  \* s.clientAndServer: key -> handle or Nil
    SelectMode,       \* s.SelectMode
    wpc,              \* where the watch goroutine is
    res,              \* watch: the notification being handled
    resp,             \* pullServers: the response of its Get
    wi,               \* createWeighted / removeInactiveServers: loop index
    inactiveServers,  \* createWeighted: the collected indices
    cpc,              \* where each caller is
    idx,              \* Select: the index computed for currentServer
    server,           \* Select: the address resolved
    result,           \* what each caller's last Select returned
    nextConn,         \* the next handle a successful dial returns
    closed,           \* handles on which Close was called
    hist              \* history: what an observer of the run has noted (no field of the program)

regVars    == <<reg, events, changes>>
setVars    == <<Servers, WeightedServers, metadata, len>>
watchVars  == <<wpc, res, resp, wi, inactiveServers>>
callerVars == <<cpc, idx, server, result>>
connVars   == <<nextConn, closed>>

vars == <<reg, events, changes, Servers, WeightedServers, metadata, len,
          currentServer, clientAndServer, SelectMode, wpc, res, resp, wi,
          inactiveServers, cpc, idx, server, result, nextConn, closed, hist>>

NoEvent  == [action |-> "none", key |-> 0]
NoResp   == [err |-> FALSE, node |-> FALSE, nodes |-> <<>>]
NoResult == [kind |-> "none", conn |-> Nil]
EmptyMap == [x \in {} |-> Nil]

\* nothing noted: no Select resolved since the server set last changed, no pull under way
NoPull == [open |-> FALSE, Servers |-> <<>>, clientAndServer |-> EmptyMap]
NoHist == [trail |-> <<>>, before |-> NoPull]

\* a panic in any goroutine ends the process
Running == \A c \in DOMAIN cpc : cpc[c] # "panic"

\* ------------------------------------------------------------------- Init
\* NewEtcdClientSelector: start() pulls once, then starts watch.  The first
\* pull runs before any other goroutine exists, so it is one step; this is
\* the state it leaves when its Get succeeds, for every registry content,
\* with the cursor at cur and the goroutines cs about to call.
Start(cur, cs) ==
    /\ reg \in [Addrs -> NodeValues \cup {Absent}]
    /\ SelectMode \in Modes
    /\ events = <<>>
    /\ changes = 0
    /\ LET nodes == Listing(reg)
           ws    == RemoveIdx([i \in 1..Len(nodes) |-> NewWeighted(nodes[i])], InactiveOf(nodes))
       IN  /\ Servers = RemoveIdx(ServersOf(nodes), InactiveOf(nodes))
           /\ IF SelectMode = "WeightedICMP"
              THEN \E rt \in [1..Len(ws) -> Rtts] : WeightedServers = WithIcmp(ws, rt)
              ELSE WeightedServers = ws
           /\ metadata = [k \in {nodes[i].key : i \in 1..Len(nodes)} |-> reg[k]]
    /\ len = Len(Servers)
    /\ currentServer = cur
    /\ clientAndServer = EmptyMap
    /\ wpc = "next"
    /\ res = NoEvent
    /\ resp = NoResp
    /\ wi = 0
    /\ inactiveServers = <<>>
    /\ cpc = [c \in cs |-> "idle"]
    /\ idx = [c \in cs |-> 0]
    /\ server = [c \in cs |-> 0]
    /\ result = [c \in cs |-> NoResult]
    /\ nextConn = 1
    /\ closed = {}
    /\ hist = NoHist

\* the selector as constructed: the cursor is the zero value
Init == Start(0, Clients)

\* --------------------------------------------------------------- registry
\* The notification of a change: its action tag and its node's key.  The
\* watch loop reads the key of an expire notification only (line 120).
Notification(a, k) == [action |-> a, key |-> IF a = "expire" THEN k ELSE 0]

\* An instance node is created, set, updated, deleted or expires; the
\* registry queues the notification for the watcher.
RegChange(a, k, v) ==
    /\ Running
    /\ changes < MaxChanges
    /\ CASE a = "create" -> reg[k] = Absent /\ reg' = [reg EXCEPT ![k] = v]
         [] a = "set"    -> reg' = [reg EXCEPT ![k] = v]
         [] a = "update" -> reg[k] # Absent /\ reg' = [reg EXCEPT ![k] = v]
         [] a = "delete" -> reg[k] # Absent /\ reg' = [reg EXCEPT ![k] = Absent]
         [] a = "expire" -> reg[k] # Absent /\ reg' = [reg EXCEPT ![k] = Absent]
    /\ events' = Append(events, Notification(a, k))
    /\ changes' = changes + 1
    /\ UNCHANGED <<setVars, currentServer, clientAndServer, SelectMode,
                   watchVars, callerVars, connVars>>

\* ------------------------------------------------------------------ watch
\* lines 116-129: the action tags on which the loop calls pullServers
PullsOn(a) == a = "expire" \/ a = "set" \/ a = "update" \/ a = "delete"

\* the loop calls watcher.Next again after the stream has failed
AwaitsNextOrExited(pc) == pc \in {"next", "exit"}

\* lines 109-113: the loop is at watcher.Next; it is left for good on an error
AwaitsNext(pc) == pc = "next"

\* lines 110-129: watcher.Next returns a notification.  Only the expire
\* branch reads res again after the pull (lines 118-120), so res is kept for
\* that branch alone.
WatchNext ==
    /\ Running
    /\ AwaitsNext(wpc)
    /\ events # <<>>
    /\ events' = Tail(events)
    /\ wpc' = IF PullsOn(Head(events).action) THEN "get" ELSE "next"
    /\ res' = IF Head(events).action = "expire" THEN Head(events) ELSE NoEvent
    /\ UNCHANGED <<reg, changes, setVars, currentServer, clientAndServer, SelectMode,
                   resp, wi, inactiveServers, callerVars, connVars>>

\* lines 110-113: watcher.Next returns an error; the loop ends
WatchError ==
    /\ Running
    /\ AwaitsNext(wpc)
    /\ wpc' = "exit"
    /\ UNCHANGED <<regVars, setVars, currentServer, clientAndServer, SelectMode,
                   res, resp, wi, inactiveServers, callerVars, connVars>>

\* lines 134-146, 168-171: the Get, and the first write of whichever branch is taken
PullGet ==
    /\ Running
    /\ wpc = "get"
    /\ \E rsp \in {GetErr, GetOkResp(reg)} :
        /\ resp' = rsp
        /\ IF GetSucceeded(rsp)
           THEN IF Len(rsp.nodes) > 0
                THEN /\ Servers' = ServersOf(rsp.nodes)
                     /\ wpc' = "make"
                     /\ UNCHANGED clientAndServer
                ELSE /\ clientAndServer' = EmptyMap
                     /\ wpc' = "pulled"
                     /\ UNCHANGED Servers
           ELSE /\ wpc' = "pulled"
                /\ UNCHANGED <<Servers, clientAndServer>>
    /\ UNCHANGED <<regVars, WeightedServers, metadata, len, currentServer, SelectMode,
                   res, wi, inactiveServers, callerVars, connVars>>

\* line 177: make([]*Weighted, len(s.Servers))
PullMake ==
    /\ Running
    /\ wpc = "make"
    /\ WeightedServers' = [i \in 1..Len(Servers) |-> NilW]
    /\ inactiveServers' = <<>>
    /\ wi' = 1
    /\ wpc' = "fill"
    /\ UNCHANGED <<regVars, Servers, metadata, len, currentServer, clientAndServer,
                   SelectMode, res, resp, callerVars, connVars>>

\* lines 181-202: one iteration of createWeighted's loop
PullFill ==
    /\ Running
    /\ wpc = "fill"
    /\ LET n   == resp.nodes[wi]
           ina == IF MarkedInactive(n) THEN Append(inactiveServers, wi) ELSE inactiveServers
       IN  /\ WeightedServers' = [WeightedServers EXCEPT ![wi] = NewWeighted(n)]
           /\ metadata' = MapPut(metadata, n.key, n.value)
           /\ IF wi < Len(resp.nodes)
              THEN /\ wi' = wi + 1
                   /\ inactiveServers' = ina
                   /\ wpc' = "fill"
              ELSE IF ina # <<>>
              THEN /\ wi' = Len(ina)
                   /\ inactiveServers' = ina
                   /\ wpc' = "remove"
              ELSE /\ wi' = 0
                   /\ inactiveServers' = <<>>
                   /\ wpc' = "setlen"
    /\ UNCHANGED <<regVars, Servers, len, currentServer, clientAndServer, SelectMode,
                   res, resp, callerVars, connVars>>

\* lines 207-221: one iteration of removeInactiveServers' loop
PullRemove ==
    /\ Running
    /\ wpc = "remove"
    /\ LET k             == inactiveServers[wi]
           removedServer == Servers[k]
           c             == MapGet(clientAndServer, removedServer)
       IN  /\ Servers' = RemoveAt(Servers, k)
           /\ WeightedServers' = RemoveAt(WeightedServers, k)
           /\ IF c # Nil
              THEN /\ clientAndServer' = MapDelete(clientAndServer, removedServer)
                   /\ closed' = closed \cup {c}
              ELSE UNCHANGED <<clientAndServer, closed>>
    /\ wi' = wi - 1
    /\ IF wi > 1
       THEN wpc' = "remove" /\ UNCHANGED inactiveServers
       ELSE wpc' = "setlen" /\ inactiveServers' = <<>>
    /\ UNCHANGED <<regVars, metadata, len, currentServer, SelectMode, res, resp,
                   callerVars, nextConn>>

\* lines 150-163: the probes of WeightedICMP, then s.len = len(s.Servers)
PullSetLen ==
    /\ Running
    /\ wpc = "setlen"
    /\ IF SelectMode = "WeightedICMP"
       THEN \E rt \in [1..Len(WeightedServers) -> Rtts] :
                WeightedServers' = WithIcmp(WeightedServers, rt)
       ELSE UNCHANGED WeightedServers
    /\ len' = Len(Servers)
    /\ wpc' = "clamp"
    /\ UNCHANGED <<regVars, Servers, metadata, currentServer, clientAndServer, SelectMode,
                   res, resp, wi, inactiveServers, callerVars, connVars>>

\* lines 165-167: the cursor reduced modulo the new length
PullClamp ==
    /\ Running
    /\ wpc = "clamp"
    /\ IF len > 0
       THEN currentServer' = currentServer % len
       ELSE UNCHANGED currentServer
    /\ wpc' = "pulled"
    /\ UNCHANGED <<regVars, setVars, clientAndServer, SelectMode, res, resp, wi,
                   inactiveServers, callerVars, connVars>>

\* lines 117-124: pullServers has returned; on expire of an instance node the
\* cache entry of that key is deleted; then the loop waits again
WatchAfterPull ==
    /\ Running
    /\ wpc = "pulled"
    /\ IF res.action = "expire"
       THEN clientAndServer' = MapDelete(clientAndServer, res.key)
       ELSE UNCHANGED clientAndServer
    /\ res' = NoEvent
    /\ resp' = NoResp
    /\ wpc' = "next"
    /\ UNCHANGED <<regVars, setVars, currentServer, SelectMode, wi, inactiveServers,
                   callerVars, connVars>>


\* ------------------------------------------------------------ strategies
\* JumpConsistentHash(len, options): a deterministic bucket in [0, len);
\* bucket 0 when there is no bucket
JumpConsistentHash(n, key) == IF n <= 0 THEN 0 ELSE key % n

HashKeys == 0..NumServers

RECURSIVE SumEffective(_, _)
SumEffective(ws, i) ==
    IF i > Len(ws) THEN 0
    ELSE (IF ws[i] = NilW THEN 0 ELSE ws[i].EffectiveWeight) + SumEffective(ws, i + 1)

\* nextWeighted(servers): smooth weighted round-robin.  Every record's
\* CurrentWeight grows by its EffectiveWeight, the first record with the
\* greatest CurrentWeight is chosen and pays the total.  0: no record.
NextWeightedIndex(ws) ==
    LET P == {i \in 1..Len(ws) : ws[i] # NilW}
        cw(i) == ws[i].CurrentWeight + ws[i].EffectiveWeight
    IN  IF P = {} THEN 0
        ELSE CHOOSE i \in P : \A j \in P : cw(i) > cw(j) \/ (cw(i) = cw(j) /\ i <= j)

NextWeightedStep(ws) ==
    LET best == NextWeightedIndex(ws)
        total == SumEffective(ws, 1)
    IN  [i \in 1..Len(ws) |->
            IF ws[i] = NilW THEN NilW
            ELSE [ws[i] EXCEPT
                    !.CurrentWeight = ws[i].CurrentWeight + ws[i].EffectiveWeight
                                      - (IF i = best THEN total ELSE 0),
                    !.EffectiveWeight = IF ws[i].EffectiveWeight < ws[i].Weight
                                        THEN ws[i].EffectiveWeight + 1
                                        ELSE ws[i].EffectiveWeight]]

\* getClosestServer(lat, lon, metadata): the keys of the metadata lookup whose
\* declared coordinates are at the least distance from the caller
ClosestServers(md) ==
    LET G == {k \in DOMAIN md : md[k].geo # NoGeo}
    IN  {k \in G : \A j \in G : md[k].geo <= md[j].geo}

\* ----------------------------------------------------------------- Select
ErrNoService   == [kind |-> "NoAvailableService", conn |-> Nil]
ErrUnsupported == [kind |-> "UnsupportedMode", conn |-> Nil]

Return(c, r) ==
    /\ result' = [result EXCEPT ![c] = r]
    /\ cpc' = [cpc EXCEPT ![c] = "idle"]
    /\ idx' = [idx EXCEPT ![c] = 0]
    /\ server' = [server EXCEPT ![c] = 0]

Panic(c) ==
    /\ cpc' = [cpc EXCEPT ![c] = "panic"]
    /\ UNCHANGED <<idx, server, result>>

Goto(c, l) == cpc' = [cpc EXCEPT ![c] = l]

\* lines 253-257, 285-286: the length check and the dispatch on SelectMode
SelectStart(c) ==
    /\ Running
    /\ cpc[c] = "idle"
    /\ IF len = 0
       THEN Return(c, ErrNoService)
       ELSE CASE SelectMode \in {"RandomSelect", "RoundRobin", "ConsistentHash"} ->
                    /\ Goto(c, "pick")
                    /\ result' = [result EXCEPT ![c] = NoResult]
                    /\ UNCHANGED <<idx, server>>
              [] SelectMode \in {"WeightedRoundRobin", "WeightedICMP"} ->
                    /\ Goto(c, "weighted")
                    /\ result' = [result EXCEPT ![c] = NoResult]
                    /\ UNCHANGED <<idx, server>>
              [] SelectMode = "Closest" ->
                    /\ Goto(c, "closest")
                    /\ result' = [result EXCEPT ![c] = NoResult]
                    /\ UNCHANGED <<idx, server>>
              [] OTHER -> Return(c, ErrUnsupported)
    /\ UNCHANGED <<regVars, setVars, currentServer, clientAndServer, SelectMode,
                   watchVars, connVars>>

\* the cursor is reduced but not advanced
RoundRobinStay(cur, n) == cur % n

\* line 264: (s.currentServer + 1) % s.len
RoundRobinNext(cur, n) == (cur + 1) % n

\* lines 259, 264, 272: the right-hand side of the assignment to s.currentServer.
\* rnd.Intn(0) and % 0 panic.
SelectPick(c) ==
    /\ Running
    /\ cpc[c] = "pick"
    /\ CASE SelectMode = "RandomSelect" ->
              IF len <= 0 THEN Panic(c)
              ELSE /\ \E r \in 0..(len - 1) : idx' = [idx EXCEPT ![c] = r]
                   /\ Goto(c, "store")
                   /\ UNCHANGED <<server, result>>
         [] SelectMode = "RoundRobin" ->
              IF len = 0 THEN Panic(c)
              ELSE /\ idx' = [idx EXCEPT ![c] = RoundRobinNext(currentServer, len)]
                   /\ Goto(c, "store")
                   /\ UNCHANGED <<server, result>>
         [] SelectMode = "ConsistentHash" ->
              /\ \E key \in HashKeys : idx' = [idx EXCEPT ![c] = JumpConsistentHash(len, key)]
              /\ Goto(c, "store")
              /\ UNCHANGED <<server, result>>
    /\ UNCHANGED <<regVars, setVars, currentServer, clientAndServer, SelectMode,
                   watchVars, connVars>>

\* lines 259, 264, 272: the write of s.currentServer
SelectStore(c) ==
    /\ Running
    /\ cpc[c] = "store"
    /\ currentServer' = idx[c]
    /\ Goto(c, "index")
    /\ UNCHANGED <<regVars, setVars, clientAndServer, SelectMode, watchVars,
                   idx, server, result, connVars>>

\* whether s.Servers[i] is inside the slice
InRange(i, s) == 0 <= i /\ i < Len(s)

\* lines 260, 265, 273: server := s.Servers[s.currentServer]
SelectIndex(c) ==
    /\ Running
    /\ cpc[c] = "index"
    /\ IF InRange(currentServer, Servers)
       THEN /\ server' = [server EXCEPT ![c] = Servers[currentServer + 1]]
            /\ Goto(c, "lookup")
            /\ UNCHANGED <<idx, result>>
       ELSE Panic(c)
    /\ UNCHANGED <<regVars, setVars, currentServer, clientAndServer, SelectMode,
                   watchVars, connVars>>

\* line 277: nextWeighted(s.WeightedServers).Server
SelectWeighted(c) ==
    /\ Running
    /\ cpc[c] = "weighted"
    /\ LET best == NextWeightedIndex(WeightedServers)
       IN  IF best = 0
           THEN Panic(c) /\ UNCHANGED WeightedServers
           ELSE /\ server' = [server EXCEPT ![c] = WeightedServers[best].Server]
                /\ WeightedServers' = NextWeightedStep(WeightedServers)
                /\ Goto(c, "lookup")
                /\ UNCHANGED <<idx, result>>
    /\ UNCHANGED <<regVars, Servers, metadata, len, currentServer, clientAndServer,
                   SelectMode, watchVars, connVars>>

\* lines 281-283: getClosestServer, then rnd.Intn(len(closestServers))
SelectClosest(c) ==
    /\ Running
    /\ cpc[c] = "closest"
    /\ IF ClosestServers(metadata) = {}
       THEN Panic(c)
       ELSE /\ \E a \in ClosestServers(metadata) : server' = [server EXCEPT ![c] = a]
            /\ Goto(c, "lookup")
            /\ UNCHANGED <<idx, result>>
    /\ UNCHANGED <<regVars, setVars, currentServer, clientAndServer, SelectMode,
                   watchVars, connVars>>

\* ------------------------------------------------------- connection cache
\* the lookup treats a nil entry as a hit, as "c, ok := m[k]; if ok" would
CacheHitAnyEntry(m, k) == k \in DOMAIN m

\* the cache is not consulted: every call dials
CacheNeverHit(m, k) == FALSE

\* lines 226-228: c := s.clientAndServer[server]; c != nil
CacheHit(m, k) == MapGet(m, k) # Nil

\* lines 225-230: the lookup under the read lock
GetCachedLookup(c) ==
    /\ Running
    /\ cpc[c] = "lookup"
    /\ IF CacheHit(clientAndServer, server[c])
       THEN Return(c, [kind |-> "client", conn |-> MapGet(clientAndServer, server[c])])
       ELSE Goto(c, "dial") /\ UNCHANGED <<idx, server, result>>
    /\ UNCHANGED <<regVars, setVars, currentServer, clientAndServer, SelectMode,
                   watchVars, connVars>>

\* lines 231-236: NewDirectRPCClient, then the insert under the write lock.
\* A failed dial returns (nil, err), and nil is what is inserted.
GetCachedDial(c) ==
    /\ Running
    /\ cpc[c] = "dial"
    /\ \/ /\ nextConn <= MaxConns
          /\ clientAndServer' = MapPut(clientAndServer, server[c], nextConn)
          /\ nextConn' = nextConn + 1
          /\ Return(c, [kind |-> "client", conn |-> nextConn])
       \/ /\ clientAndServer' = MapPut(clientAndServer, server[c], Nil)
          /\ UNCHANGED nextConn
          /\ Return(c, [kind |-> "DialError", conn |-> Nil])
    /\ UNCHANGED <<regVars, setVars, currentServer, SelectMode, watchVars, closed>>

\* lines 239-249: the first entry the range yields is compared with client,
\* deleted when it is the same handle; client is closed and the loop is left.
\* The order in which range yields the entries of a map is not specified.
\* The caller reports the connection its last Select returned.
HandleFailedClient(c) ==
    /\ Running
    /\ cpc[c] = "idle"
    /\ result[c].conn # Nil
    /\ LET client == result[c].conn
       IN  IF DOMAIN clientAndServer = {}
           THEN UNCHANGED <<clientAndServer, closed>>
           ELSE \E k \in DOMAIN clientAndServer :
                  /\ IF clientAndServer[k] = client
                     THEN clientAndServer' = MapDelete(clientAndServer, k)
                     ELSE UNCHANGED clientAndServer
                  /\ closed' = closed \cup {client}
    /\ result' = [result EXCEPT ![c] = NoResult]
    /\ UNCHANGED <<regVars, setVars, currentServer, SelectMode, watchVars,
                   cpc, idx, server, nextConn>>

\* ------------------------------------------------------------------- Next
Next ==
    \/ (\E a \in Actions, k \in Addrs, v \in NodeValues : RegChange(a, k, v)) /\ UNCHANGED hist
    \/ WatchNext /\ UNCHANGED hist
    \/ WatchError /\ UNCHANGED hist
    \/ PullGet /\ UNCHANGED hist
    \/ PullMake /\ UNCHANGED hist
    \/ PullFill /\ UNCHANGED hist
    \/ PullRemove /\ UNCHANGED hist
    \/ PullSetLen /\ UNCHANGED hist
    \/ PullClamp /\ UNCHANGED hist
    \/ WatchAfterPull /\ UNCHANGED hist
    \/ (\E c \in Clients : SelectStart(c)) /\ UNCHANGED hist
    \/ (\E c \in Clients : SelectPick(c)) /\ UNCHANGED hist
    \/ (\E c \in Clients : SelectStore(c)) /\ UNCHANGED hist
    \/ (\E c \in Clients : SelectIndex(c)) /\ UNCHANGED hist
    \/ (\E c \in Clients : SelectWeighted(c)) /\ UNCHANGED hist
    \/ (\E c \in Clients : SelectClosest(c)) /\ UNCHANGED hist
    \/ (\E c \in Clients : GetCachedLookup(c)) /\ UNCHANGED hist
    \/ (\E c \in Clients : GetCachedDial(c)) /\ UNCHANGED hist
    \/ (\E c \in Clients : HandleFailedClient(c)) /\ UNCHANGED hist

Spec == Init /\ [][Next]_vars

\* ------------------------------------------------- the sequential selector
\* Pulls and calls that do not overlap: the registry changes and the watch
\* loop takes a notification only while no caller is inside Select, and a
\* Select starts only while no pull is under way and no other caller is
\* inside Select.  The history notes what the run did.

\* no caller is inside Select
Idle == \A c \in DOMAIN cpc : cpc[c] = "idle"

\* no pull is under way
Quiet == wpc \in {"next", "exit"}

\* the cursor values a store of line 264 can have left behind
Cursors == 0..(NumServers - 1)

\* the last n elements of s
LastOf(s, n) == IF Len(s) <= n THEN s ELSE SubSeq(s, Len(s) - n + 1, Len(s))

\* the callers whose Select resolves its address in this step
Resolving == {c \in DOMAIN cpc : cpc[c] # "lookup" /\ cpc'[c] = "lookup"}

\* The history of a step.  trail: the addresses the Selects resolved, oldest
\* first, since the address sequence or the count last changed (the last
\* NumServers of them).  before: the address sequence and the cache as they
\* were when the pull under way began.
Observe ==
    hist' = [trail |->
                IF Servers' # Servers \/ len' # len THEN <<>>
                ELSE IF Resolving # {}
                THEN LastOf(Append(hist.trail, server'[CHOOSE c \in Resolving : TRUE]), NumServers)
                ELSE hist.trail,
             before |->
                IF wpc = "get"
                THEN [open |-> TRUE, Servers |-> Servers, clientAndServer |-> clientAndServer]
                ELSE IF wpc' = "next" THEN NoPull
                ELSE hist.before]

InitSeq == \E cur \in Cursors : Start(cur, Clients)

NextSeq ==
    \/ Idle /\ (\E a \in Actions, k \in Addrs, v \in NodeValues : RegChange(a, k, v)) /\ Observe
    \/ Idle /\ WatchNext /\ Observe
    \/ Idle /\ WatchError /\ Observe
    \/ PullGet /\ Observe
    \/ PullMake /\ Observe
    \/ PullFill /\ Observe
    \/ PullRemove /\ Observe
    \/ PullSetLen /\ Observe
    \/ PullClamp /\ Observe
    \/ WatchAfterPull /\ Observe
    \/ Quiet /\ Idle /\ (\E c \in Clients : SelectStart(c)) /\ Observe
    \/ (\E c \in Clients : SelectPick(c)) /\ Observe
    \/ (\E c \in Clients : SelectStore(c)) /\ Observe
    \/ (\E c \in Clients : SelectIndex(c)) /\ Observe
    \/ (\E c \in Clients : SelectWeighted(c)) /\ Observe
    \/ (\E c \in Clients : SelectClosest(c)) /\ Observe
    \/ (\E c \in Clients : GetCachedLookup(c)) /\ Observe
    \/ (\E c \in Clients : GetCachedDial(c)) /\ Observe
    \/ Quiet /\ (\E c \in Clients : HandleFailedClient(c)) /\ Observe

SpecSeq == InitSeq /\ [][NextSeq]_vars

\* ------------------------------------------------- concurrent callers
\* NumDialers goroutines call Select and HandleFailedClient at once; the
\* registry does not change and the watch loop waits in watcher.Next.
InitDial == Start(0, Dialers)

NextDial ==
    \/ (\E c \in Dialers : SelectStart(c)) /\ UNCHANGED hist
    \/ (\E c \in Dialers : SelectPick(c)) /\ UNCHANGED hist
    \/ (\E c \in Dialers : SelectStore(c)) /\ UNCHANGED hist
    \/ (\E c \in Dialers : SelectIndex(c)) /\ UNCHANGED hist
    \/ (\E c \in Dialers : SelectWeighted(c)) /\ UNCHANGED hist
    \/ (\E c \in Dialers : SelectClosest(c)) /\ UNCHANGED hist
    \/ (\E c \in Dialers : GetCachedLookup(c)) /\ UNCHANGED hist
    \/ (\E c \in Dialers : GetCachedDial(c)) /\ UNCHANGED hist
    \/ (\E c \in Dialers : HandleFailedClient(c)) /\ UNCHANGED hist

SpecDial == InitDial /\ [][NextDial]_vars


\* ================================================================ claims
\* the address sequence and the weighted records agree in length and order,
\* every record is set, and len is that length
Aligned ==
    /\ Len(Servers) = Len(WeightedServers)
    /\ \A i \in 1..Len(WeightedServers) :
          /\ WeightedServers[i] # NilW
          /\ i <= Len(Servers) => WeightedServers[i].Server = Servers[i]
    /\ len = Len(Servers)

\* what a pull that succeeds on the registry as it is now leaves in s.Servers
Eligible(r) == RemoveIdx(ServersOf(Listing(r)), InactiveOf(Listing(r)))

\* pullServers has returned from a Get that succeeded
PulledOk == wpc = "pulled" /\ GetSucceeded(resp)

\* C1: when pullServers returns from a Get that succeeded with zero children,
\* len is 0 and the address sequence and the connection cache are empty (so
\* that the next Select returns "No available service").
C1_EmptyListingClearsAll ==
    (PulledOk /\ Len(resp.nodes) = 0)
        => (len = 0 /\ Servers = <<>> /\ clientAndServer = EmptyMap)

\* C2: HandleFailedClient(c), for a connection c that is the value of some
\* cache entry, leaves no entry holding c and leaves c closed.
C2_FailedClientEvicted ==
    [][\A c \in Clients :
          (HandleFailedClient(c) /\ result[c].conn \in Range(clientAndServer))
              => (/\ result[c].conn \notin Range(clientAndServer')
                  /\ result[c].conn \in closed')]_vars

\* C3: in every state in which a Select is about to read the server set, the
\* address sequence and the weighted records have the same length and order,
\* every weighted record is initialised, and len is that length.
C3_ReadersSeeAlignedSet ==
    \A c \in Clients : cpc[c] \in {"pick", "index", "weighted"} => Aligned

\* C4: in every reachable state 0 <= currentServer < len whenever len > 0.
C4_CursorInRange ==
    len > 0 => (0 <= currentServer /\ currentServer < len)

\* C5: whenever a Select is about to index the address sequence, the index it
\* uses is inside the sequence, so the read does not panic.
C5_SelectIndexInBounds ==
    \A c \in Clients : cpc[c] = "index" => InRange(currentServer, Servers)

\* C5, the weighted strategies: whenever a Select is about to dereference the
\* record nextWeighted returns, there is such a record.
C5_WeightedRecordPresent ==
    \A c \in Clients : cpc[c] = "weighted" => NextWeightedIndex(WeightedServers) # 0

\* C6: every notification the watch stream delivers, whatever its action tag,
\* makes the loop call pullServers before it waits again.
C6_EveryNotificationPulls ==
    [][(wpc = "next" /\ events # <<>> /\ events' = Tail(events)) => wpc' = "get"]_vars

\* C7: once the registry has stopped changing, every notification has been
\* delivered and the watch loop waits again without having failed, the address
\* sequence is the eligible instances the registry lists.  (From such a state
\* no pull follows, so a view that differs there differs for ever.)
C7_QuiescentViewConverged ==
    (changes = MaxChanges /\ events = <<>> /\ wpc = "next") => Servers = Eligible(reg)

\* C8: a pullServers whose Get fails leaves the address sequence, the weighted
\* records, the metadata lookup, the count, the cursor and the connection
\* cache as they were, and changes no caller's result.
C8_FailedGetKeepsState ==
    [][(wpc = "get" /\ wpc' # "get" /\ resp'.err)
          => UNCHANGED <<Servers, WeightedServers, metadata, len, currentServer,
                         clientAndServer, result>>]_vars

\* C8 witness: a pull has returned from a failed Get while servers were known
\* and a connection was cached
C8_Witness ==
    /\ wpc = "pulled" /\ resp.err
    /\ Servers # <<>>
    /\ \E a \in DOMAIN clientAndServer : clientAndServer[a] # Nil

\* a Select of caller c is at the lookup for an address whose last dial failed
AtFailedEntry(c) ==
    /\ cpc[c] = "lookup"
    /\ server[c] \in DOMAIN clientAndServer
    /\ clientAndServer[server[c]] = Nil

C10_InactiveRemovedAligned ==
    (PulledOk /\ Len(resp.nodes) > 0)
        => /\ \A i \in 1..Len(resp.nodes) :
                 resp.nodes[i].value.state \notin {"", "active"}
                     => resp.nodes[i].key \notin Range(Servers)
           /\ Aligned


\* C10, for values url.ParseQuery accepts: the same, for the instances whose
\* parsed state is other than "" or "active".
C10_ParsedInactiveRemovedAligned ==
    (PulledOk /\ Len(resp.nodes) > 0)
        => /\ \A i \in 1..Len(resp.nodes) :
                 (/\ ~ParseQuery(resp.nodes[i].value).err
                  /\ ParseQuery(resp.nodes[i].value).state \notin {"", "active"})
                     => resp.nodes[i].key \notin Range(Servers)
           /\ Aligned

\* ---------------------------------------------------------------- C11
\* C11: in RoundRobin mode, whenever len Selects in a row have resolved their
\* addresses while the server set stayed as it was, whatever the cursor was
\* before the first of them, these addresses are all the addresses of the
\* set; and after each such Select the cursor is in [0, len).
C11_RoundRobinVisitsAll ==
    (SelectMode = "RoundRobin" /\ Idle /\ Quiet /\ len > 0)
        => /\ Len(hist.trail) >= len
                => Range(LastOf(hist.trail, len)) = Range(Servers)
           /\ hist.trail # <<>> => (0 <= currentServer /\ currentServer < len)

\* C11 witness: two Selects in a row have gone round a set of two addresses,
\* starting from a cursor other than 0
C11_Witness ==
    /\ SelectMode = "RoundRobin" /\ Idle /\ Quiet
    /\ len = 2
    /\ Len(hist.trail) = 2
    /\ hist.trail[1] = Servers[1]
    /\ hist.trail[2] = Servers[2]

\* ---------------------------------------------------------------- C12
\* C12: a Select in Closest mode, with a non-empty server set, for which
\* getClosestServer returns no candidate returns the "No available service"
\* error; it does not panic and does not dial.
C12_NoCandidateIsNoService ==
    [][\A c \in Clients :
          (/\ cpc[c] = "closest" /\ cpc'[c] # "closest"
           /\ len > 0 /\ Servers # <<>>
           /\ ClosestServers(metadata) = {})
              => (/\ cpc'[c] = "idle"
                  /\ result'[c] = ErrNoService
                  /\ nextConn' = nextConn)]_vars

WatchAccesses ==
    CASE wpc = "get" /\ Listing(reg) = <<>> ->
            {[kind |-> "write", lock |-> "none", line |-> 170]}
      [] wpc = "remove" ->
            {[kind |-> "read", lock |-> "RLock", line |-> 213]}
            \cup (IF MapGet(clientAndServer, Servers[inactiveServers[wi]]) # Nil
                  THEN {[kind |-> "write", lock |-> "Lock", line |-> 217]} ELSE {})
      [] wpc = "pulled" /\ res.action = "expire" ->
            {[kind |-> "write", lock |-> "Lock", line |-> 122]}
      [] OTHER -> {}

\* The same for caller c.
\*   lines 225-227: read under RLock; 233-235: insert under Lock
\*   line 240: range over the map, no lock; 242-244: delete under Lock
CallerAccesses(c) ==
    CASE cpc[c] = "lookup" -> {[kind |-> "read", lock |-> "RLock", line |-> 226]}
      [] cpc[c] = "dial"   -> {[kind |-> "write", lock |-> "Lock", line |-> 234]}
      [] cpc[c] = "idle" /\ result[c].conn # Nil /\ DOMAIN clientAndServer # {} ->
            {[kind |-> "read", lock |-> "none", line |-> 240]}
            \cup (IF result[c].conn \in Range(clientAndServer)
                  THEN {[kind |-> "write", lock |-> "Lock", line |-> 243]} ELSE {})
      [] OTHER -> {}

\* the mutex discipline: a write holds the write lock, a read at least the read lock
Guarded(a) == IF a.kind = "write" THEN a.lock = "Lock" ELSE a.lock \in {"RLock", "Lock"}

\* two accesses by different goroutines that the mutex does not keep apart
Overlap(a, b) == (a.kind = "write" \/ b.kind = "write") /\ ~(Guarded(a) /\ Guarded(b))

\* C14: every access to the connection cache map holds the mutex in the mode
\* the discipline asks for, so that no two goroutines are ever both about to
\* access the map, one of them writing, without the mutex keeping them apart.
\* (Stated for the strategies that are resolved by the code of Select alone.)
C14_NoUnguardedOverlap ==
    SelectMode \in {"RandomSelect", "RoundRobin"} =>
        /\ \A c \in DOMAIN cpc :
              \A a \in WatchAccesses, b \in CallerAccesses(c) : ~Overlap(a, b)
        /\ \A c, d \in DOMAIN cpc :
              c # d => \A a \in CallerAccesses(c), b \in CallerAccesses(d) : ~Overlap(a, b)

\* ---------------------------------------------------------------- C15
\* the addresses that were in the address sequence when the pull under way
\* began and are in it no longer
RemovedByPull == Range(hist.before.Servers) \ Range(Servers)

\* C15: when pullServers returns from a Get that succeeded with children, and
\* no Select ran meanwhile, every address the pull removed from the address
\* sequence (filtered out, or no longer listed) has no connection left in the
\* cache, and the connection the cache held for it when the pull began is
\* closed.  (Stated for the strategies that are resolved by the code of
\* Select alone; an entry holding nil counts as no connection.)
C15_RemovedAddressesEvicted ==
    (/\ PulledOk /\ Len(resp.nodes) > 0 /\ hist.before.open
     /\ SelectMode \in {"RandomSelect", "RoundRobin"})
        => \A a \in RemovedByPull :
              /\ MapGet(clientAndServer, a) = Nil
              /\ MapGet(hist.before.clientAndServer, a) # Nil
                    => MapGet(hist.before.clientAndServer, a) \in closed

\* C15, the addresses the pull filters out: the same, for the addresses of
\* the listing that createWeighted collected as inactive.
C15_FilteredAddressesEvicted ==
    (PulledOk /\ Len(resp.nodes) > 0 /\ hist.before.open)
        => \A i \in 1..Len(resp.nodes) :
              MarkedInactive(resp.nodes[i])
                 => /\ MapGet(clientAndServer, resp.nodes[i].key) = Nil
                    /\ MapGet(hist.before.clientAndServer, resp.nodes[i].key) # Nil
                          => MapGet(hist.before.clientAndServer, resp.nodes[i].key) \in closed

\* ---------------------------------------------------------------- C16
\* the handles the dials have returned so far
Dialled == 1..(nextConn - 1)

\* C16: every connection that was dialled is either still the value of a
\* cache entry or closed: no handle leaves the cache (by the expire path of
\* watch, the empty-listing path of pullServers, removeInactiveServers or
\* HandleFailedClient) while it is open.  (Stated for the strategies that are
\* resolved by the code of Select alone, while no caller is inside Select.)
C16_NoOpenHandleDropped ==
    (SelectMode \in {"RandomSelect", "RoundRobin"} /\ Idle)
        => \A h \in Dialled : h \in Range(clientAndServer) \/ h \in closed

\* ---------------------------------------------------------------- C17
\* a node value that names the configured group and a state that is empty
\* or "active", read field by field whether or not the whole value parses
EligibleValue(v) == v.group = Group /\ v.state \in {"", "active"}

\* C17: when pullServers returns from a Get that succeeded with children,
\* every instance left in the address sequence has a value that names the
\* configured group and a state that is empty or "active", whether or not the
\* value parses as a query string; and no instance with such a value is
\* missing from the sequence because another instance's value did not parse.
C17_OnlyEligibleRecordsRemain ==
    (PulledOk /\ Len(resp.nodes) > 0)
        => \A i \in 1..Len(resp.nodes) :
              /\ resp.nodes[i].key \in Range(Servers) => EligibleValue(resp.nodes[i].value)
              /\ EligibleValue(resp.nodes[i].value) => resp.nodes[i].key \in Range(Servers)

\* C17, for the values url.ParseQuery accepts: an instance is left in the
\* address sequence exactly when its value names the configured group and a
\* state that is empty or "active"; an instance whose value does not parse is
\* left in it, and every instance has its weighted record.
C17_ParsedRecordsEligible ==
    (PulledOk /\ Len(resp.nodes) > 0)
        => /\ \A i \in 1..Len(resp.nodes) :
                 resp.nodes[i].key \in Range(Servers)
                    <=> (ParseQuery(resp.nodes[i].value).err
                         \/ EligibleValue(resp.nodes[i].value))
           /\ Aligned

\* ---------------------------------------------------------------- C18
\* the weighted records without the working values nextWeighted changes
DeclaredOf(ws) ==
    [i \in 1..Len(ws) |->
        IF ws[i] = NilW THEN NilW ELSE [Server |-> ws[i].Server, Weight |-> ws[i].Weight]]

\* C18: the watch loop is left only from watcher.Next, in a step that takes
\* no notification (the call returned an error); once it is left it stays
\* left, no notification is taken, no step of pullServers runs, and the
\* address sequence, the declared weighted records, the metadata lookup and
\* the count stay as they are.
C18_WatchExitsOnErrorOnly ==
    [][/\ (wpc # "exit" /\ wpc' = "exit")
             => (wpc = "next" /\ UNCHANGED <<events, Servers, WeightedServers, metadata, len>>)
       /\ wpc = "exit"
             => /\ wpc' = "exit"
                /\ Len(events') >= Len(events)
                /\ UNCHANGED <<res, resp, wi, inactiveServers>>
                /\ UNCHANGED <<Servers, metadata, len>>
                /\ DeclaredOf(WeightedServers') = DeclaredOf(WeightedServers)]_vars

\* C18 witness: the loop has been left with a notification never taken, and a
\* Select has resolved, from the view it left, to an instance the registry no
\* longer lists
C18_Witness ==
    /\ wpc = "exit"
    /\ events # <<>>
    /\ \E c \in DOMAIN cpc :
          /\ cpc[c] = "lookup"
          /\ server[c] \in Range(Servers)
          /\ reg[server[c]] = Absent

\* ---------------------------------------------------------------- C19
\* C19: whatever the strategy, the address a Select has resolved (while no
\* pull is under way) is an address of the current address sequence.
C19_ResolvedInServers ==
    \A c \in DOMAIN cpc : cpc[c] = "lookup" => server[c] \in Range(Servers)

\* C19, every strategy but Closest: the same.
C19_ResolvedInServersUnlessClosest ==
    \A c \in DOMAIN cpc :
        (cpc[c] = "lookup" /\ SelectMode # "Closest") => server[c] \in Range(Servers)

\* ---------------------------------------------------------------- C20
\* C20: when Selects of several goroutines resolve at once to an address that
\* has no cache entry, every connection a Select returned and nobody closed
\* is the one the cache holds, and every connection that was dialled is in
\* the cache or closed: none is overwritten and left open.  (Stated for the
\* strategies that are resolved by the code of Select alone.)
C20_ConcurrentDialsKeepOne ==
    SelectMode \in {"RandomSelect", "RoundRobin"} =>
        /\ \A c \in DOMAIN cpc :
              (cpc[c] = "idle" /\ result[c].kind = "client" /\ result[c].conn \notin closed)
                  => result[c].conn \in Range(clientAndServer)
        /\ \A h \in Dialled : h \in Range(clientAndServer) \/ h \in closed

====
